---- MODULE Spec2Model ----
(***************************************************************************)
(* Financial health checker (stock-analyzer): the regression trend         *)
(* detector and the ten-check scorer of src/app.py.                        *)
(*                                                                         *)
(* Numbers.  Statement values are floats in the program and integers       *)
(* here; a missing period value is pandas' NaN.  Valuation metrics (P/E,   *)
(* PEG) are kept in hundredths, so that P/E 20 is 2000 and the text        *)
(* "20.00" is produced by a real conversion.  The regression slope is      *)
(* kept as an exact fraction num/den.                                      *)
(***************************************************************************)
EXTENDS Integers, Sequences, FiniteSets, TLC

\* ------------------------------------------------------------------------
\* Python / pandas values
\* ------------------------------------------------------------------------
Num(n) == [t |-> "num", v |-> n]
NaN    == [t |-> "nan", v |-> 0]
None   == [t |-> "none", v |-> 0]
\* a key that is not in the dict
Absent == [t |-> "absent", v |-> 0]

IsNum(x) == x.t = "num"
\* np.isnan / the complement of pd.notna on a float cell
isnan(x) == x.t = "nan"

\* ------------------------------------------------------------------------
\* Bounds
\* ------------------------------------------------------------------------
\* longest series handed to the trend detector on its own
MaxLen == 4
\* fiscal periods (columns) of a full statement table
NumPeriods == 2
\* provider data changes explored from the base snapshot
MaxUpdates == 2
\* requests served one after the other by the web application
MaxCalls == 3
\* lines read by the console loop
MaxReads == 4
\* longest list handed to display_results on its own
MaxResults == 5

\* values of the series handed to the trend detector on its own
TrendVals == {Num(0), Num(1), Num(3), Num(6), NaN}

RECURSIVE SeqsUpTo(_, _)
SeqsUpTo(S, n) ==
    IF n = 0 THEN {<<>>}
    ELSE LET shorter == SeqsUpTo(S, n - 1)
         IN  shorter \cup {Append(s, x) : s \in {q \in shorter : Len(q) = n - 1}, x \in S}

\* ------------------------------------------------------------------------
\* check_trend_with_regression
\* ------------------------------------------------------------------------
RECURSIVE SumOver(_, _)
SumOver(f, S) ==
    IF S = {} THEN 0
    ELSE LET i == CHOOSE j \in S : TRUE
         IN  f[i] + SumOver(f, S \ {i})

\* every position is kept, a missing value counting as zero
mut_valid_indices_all(data_series) == 1..Len(data_series)
\* valid_indices = ~np.isnan(values): the positions that are kept
valid_indices(data_series) == {i \in 1..Len(data_series) : ~isnan(data_series[i])}

\* the years counted from the end of the series
mut_years_descending(data_series) == [i \in 1..Len(data_series) |-> Len(data_series) - i]
\* the years counted over the kept points only
mut_years_reindexed(data_series) ==
    [i \in 1..Len(data_series) |-> Cardinality({j \in 1..(i - 1) : ~isnan(data_series[j])})]
\* years = range(len(data_series)): position i of the series is year i - 1,
\* and a kept point keeps the year of its position
years(data_series) == [i \in 1..Len(data_series) |-> i - 1]

\* LinearRegression().fit(years_clean, values_clean).coef_[0]: X and y are
\* centred on their means and the coefficient is SUM(xc*yc) / SUM(xc*xc).
\* Centred values are kept times n, so the fraction is the same.
fit_slope(data_series) ==
    LET keep == valid_indices(data_series)
        n    == Cardinality(keep)
        x    == years(data_series)
        y    == [i \in keep |-> data_series[i].v]
        sx   == SumOver(x, keep)
        sy   == SumOver(y, keep)
        xc   == [i \in keep |-> n * x[i] - sx]
        yc   == [i \in keep |-> n * y[i] - sy]
    IN  [num |-> SumOver([i \in keep |-> xc[i] * yc[i]], keep),
         den |-> SumOver([i \in keep |-> xc[i] * xc[i]], keep)]

\* slope > 0
slope_gt_0(slope) == (slope.num > 0 /\ slope.den > 0) \/ (slope.num < 0 /\ slope.den < 0)
\* slope < 0
slope_lt_0(slope) == (slope.num < 0 /\ slope.den > 0) \/ (slope.num > 0 /\ slope.den < 0)

\* slope >= 0 taken for an increasing trend
mut_slope_decision_ge(slope, increasing) ==
    IF increasing THEN ~slope_lt_0(slope) ELSE slope_lt_0(slope)
\* `if increasing: return slope > 0 else: return slope < 0`
slope_decision(slope, increasing) ==
    IF increasing THEN slope_gt_0(slope) ELSE slope_lt_0(slope)

\* a series with any missing entry has no trend
mut_check_trend_missing_fails(data_series, increasing) ==
    IF Len(data_series) < 2 THEN FALSE
    ELSE IF Cardinality(valid_indices(data_series)) < Len(data_series) THEN FALSE
    ELSE slope_decision(fit_slope(data_series), increasing)
check_trend_with_regression(data_series, increasing) ==
    IF Len(data_series) < 2 THEN FALSE
    ELSE IF Cardinality(valid_indices(data_series)) < 2 THEN FALSE
    ELSE slope_decision(fit_slope(data_series), increasing)

\* ------------------------------------------------------------------------
\* Provider data: the info dict and the three statement tables
\* ------------------------------------------------------------------------
FinItems == {"Total Revenue", "Operating Income", "Net Income"}
BsItems  == {"Current Assets", "Current Liabilities", "Long Term Debt",
             "Stockholders Equity", "Ordinary Shares Number"}
CfItems  == {"Operating Cash Flow", "Investing Cash Flow", "Financing Cash Flow",
             "Free Cash Flow", "Capital Expenditures"}

\* period labels (fiscal years), 1 the oldest
Periods == 1..NumPeriods

\* A DataFrame: its column labels in the order the provider returned them,
\* its row labels, and its cells.  The row of a label that is not in the
\* index is never read.
\* df.empty
empty(df) == Len(df.columns) = 0 \/ df.index = {}

\* df.loc[item]: the row as a Series, one (date, value) entry per column,
\* in column order
loc(df, item) == [i \in 1..Len(df.columns) |->
                    [date |-> df.columns[i], value |-> df.cell[item][df.columns[i]]]]

\* the row handed over in the order the provider returned it
mut_sort_index_raw(series) == series
\* Series.sort_index(): ascending by date
RECURSIVE sort_index(_)
sort_index(series) ==
    IF Len(series) = 0 THEN <<>>
    ELSE LET i == CHOOSE j \in 1..Len(series) :
                     \A k \in 1..Len(series) : series[j].date <= series[k].date
             rest == [k \in 1..(Len(series) - 1) |->
                        IF k < i THEN series[k] ELSE series[k + 1]]
         IN  <<series[i]>> \o sort_index(rest)

\* Series.values
values(series) == [i \in 1..Len(series) |-> series[i].value]

\* a + b on two rows of one table: element by element, NaN when either is
add_value(a, b) == IF isnan(a) \/ isnan(b) THEN NaN ELSE Num(a.v + b.v)
series_add(s1, s2) == [i \in 1..Len(s1) |->
                         [date |-> s1[i].date, value |-> add_value(s1[i].value, s2[i].value)]]

\* df.iloc[:, 0].get(item, None): the cell of the first column
latest_get(df, item) ==
    IF item \in df.index THEN df.cell[item][df.columns[1]] ELSE None

\* info.get(key, default)
info_get(info_, key, default) == IF info_[key] = Absent THEN default ELSE info_[key]

InfoKeys == {"trailingPE", "trailingPegRatio", "sharesOutstanding"}
\* len(info): the three keys the program reads plus the other keys
len_info(info_) == Cardinality({k \in InfoKeys : info_[k] # Absent}) + info_.other_keys

\* ------------------------------------------------------------------------
\* Number formatting
\* ------------------------------------------------------------------------
abs(n) == IF n < 0 THEN -n ELSE n
Pad2(n) == IF n < 10 THEN "0" \o ToString(n) ELSE ToString(n)

\* f"{x:.2f}" of a metric kept in hundredths
fmt_2f(x) == (IF x.v < 0 THEN "-" ELSE "") \o ToString(abs(x.v) \div 100)
             \o "." \o Pad2(abs(x.v) % 100)

\* round(100 * |n / d|) to the nearest, an exact tie to even
round_hundredths(n, d) ==
    LET q == (100 * abs(n)) \div abs(d)
        r == (100 * abs(n)) % abs(d)
    IN  IF 2 * r > abs(d) \/ (2 * r = abs(d) /\ q % 2 = 1) THEN q + 1 ELSE q

\* f"{a / b:.2f}" of two float cells (numpy division: no exception on zero)
fmt_ratio(a, b) ==
    IF isnan(a) \/ isnan(b) \/ (a.v = 0 /\ b.v = 0) THEN "nan"
    ELSE IF b.v = 0 THEN (IF a.v < 0 THEN "-inf" ELSE "inf")
    ELSE LET h == round_hundredths(a.v, b.v)
         IN  (IF (a.v < 0) # (b.v < 0) /\ a.v # 0 THEN "-" ELSE "")
             \o ToString(h \div 100) \o "." \o Pad2(h % 100)

\* a > b on floats: False when either is NaN
gt(a, b) == IsNum(a) /\ IsNum(b) /\ a.v > b.v

\* ------------------------------------------------------------------------
\* The ten checks of analyze_stock
\* ------------------------------------------------------------------------
Check(id, name, description, passed, details) ==
    [id |-> id, name |-> name, description |-> description,
     passed |-> passed, details |-> details]

\* `if pe_ratio`: None and 0.0 are falsy
truthy(x) == x # None /\ ~(IsNum(x) /\ x.v = 0)

\* f"PE: {pe_ratio:.2f}" if pe_ratio else "PE: N/A"
metric_text(label, x) ==
    IF truthy(x) THEN label \o ": " \o fmt_2f(x) ELSE label \o ": N/A"

\* the bound taken as inclusive
mut_metric_good_le(x, limit) == x # None /\ x.v <= limit * 100
\* pe_ratio is not None and pe_ratio < 25 (metrics are in hundredths)
metric_good(x, limit) == x # None /\ x.v < limit * 100

\* 1. PE/PEG ratio check
check1(info_) ==
    LET pe_ratio    == info_get(info_, "trailingPE", None)
        peg_ratio   == info_get(info_, "trailingPegRatio", None)
        pe_good     == metric_good(pe_ratio, 25)
        peg_good    == metric_good(peg_ratio, 1)
        check1_pass == pe_good \/ peg_good
    IN  Check(1, "P/E < 25 || PEG < 1.0", "Valuation metrics", check1_pass,
              metric_text("PE", pe_ratio) \o ", " \o metric_text("PEG", peg_ratio))

\* checks 2, 3, 4, 7 and 8: the trend of one line item, sorted by period
trend_check(id, name, description, df, item, increasing, yes, no) ==
    IF ~empty(df) /\ item \in df.index
    THEN LET data   == sort_index(loc(df, item))
             passed == check_trend_with_regression(values(data), increasing)
         IN  Check(id, name, description, passed, IF passed THEN yes ELSE no)
    ELSE Check(id, name, description, FALSE, "No data available")

check2(financials_) ==
    trend_check(2, "Revenue Growth", "5-year increasing trend", financials_,
                "Total Revenue", TRUE, "Positive trend detected", "No clear growth trend")
check3(financials_) ==
    trend_check(3, "Operating Income Growth", "5-year increasing trend", financials_,
                "Operating Income", TRUE, "Consistent growth pattern", "Declining or flat trend")
check4(financials_) ==
    trend_check(4, "Net Income Growth", "5-year increasing trend", financials_,
                "Net Income", TRUE, "Strong profitability trend", "Declining profitability")

\* 5. Current Assets vs Current Liabilities
check5(balance_sheet_) ==
    LET current_assets      == latest_get(balance_sheet_, "Current Assets")
        current_liabilities == latest_get(balance_sheet_, "Current Liabilities")
        check5_pass         == gt(current_assets, current_liabilities)
        ratio               == fmt_ratio(current_assets, current_liabilities)
        mk(passed, details) == Check(5, "Current Assets > Current Liabilities",
                                     "Liquidity position", passed, details)
    IN  IF empty(balance_sheet_) THEN mk(FALSE, "No data available")
        ELSE IF current_assets # None /\ current_liabilities # None
        THEN mk(check5_pass, IF check5_pass THEN "Current ratio: " \o ratio
                             ELSE "Poor liquidity - ratio: " \o ratio)
        ELSE mk(FALSE, "Balance sheet data incomplete")

\* 6. Long-term Debt to Net Profit ratio
check6(financials_, balance_sheet_) ==
    LET long_term_debt    == latest_get(balance_sheet_, "Long Term Debt")
        latest_net_income == loc(financials_, "Net Income")[1].value
        \* debt_ratio < 4, with latest_net_income > 0
        check6_pass       == IsNum(long_term_debt) /\ long_term_debt.v < 4 * latest_net_income.v
        debt_ratio        == fmt_ratio(long_term_debt, latest_net_income)
        mk(passed, details) == Check(6, "Long-term Debt/Net Profit < 4",
                                     "Debt management", passed, details)
    IN  IF empty(balance_sheet_) \/ empty(financials_) THEN mk(FALSE, "No data available")
        ELSE IF "Net Income" \notin financials_.index THEN mk(FALSE, "No data available")
        ELSE IF long_term_debt # None /\ gt(latest_net_income, Num(0))
        THEN mk(check6_pass, IF check6_pass THEN "Debt/Profit ratio: " \o debt_ratio
                             ELSE "High debt ratio: " \o debt_ratio)
        ELSE mk(FALSE, "Insufficient data for calculation")

check7(balance_sheet_) ==
    trend_check(7, "Stockholders' Equity Growth", "5-year increasing trend", balance_sheet_,
                "Stockholders Equity", TRUE, "Growing shareholder value", "Declining equity trend")
\* a growing share count taken for the favourable direction
mut_check8_increasing(balance_sheet_) ==
    trend_check(8, "Shares Outstanding Decreasing", "Share buyback trend", balance_sheet_,
                "Ordinary Shares Number", TRUE, "Active share repurchase program",
                "No significant buyback activity")
check8(balance_sheet_) ==
    trend_check(8, "Shares Outstanding Decreasing", "Share buyback trend", balance_sheet_,
                "Ordinary Shares Number", FALSE, "Active share repurchase program",
                "No significant buyback activity")

\* abs(x) on a float cell: NaN stays NaN
abs_value(x) == IF IsNum(x) THEN Num(abs(x.v)) ELSE x

\* 9. Cash flow comparison
check9(cashflow_) ==
    LET operating_cf == latest_get(cashflow_, "Operating Cash Flow")
        investing_cf == latest_get(cashflow_, "Investing Cash Flow")
        financing_cf == latest_get(cashflow_, "Financing Cash Flow")
        op_vs_inv    == operating_cf # None /\ investing_cf # None
                        /\ gt(operating_cf, abs_value(investing_cf))
        op_vs_fin    == operating_cf # None /\ financing_cf # None
                        /\ gt(operating_cf, abs_value(financing_cf))
        check9_pass  == op_vs_inv /\ op_vs_fin
        mk(passed, details) == Check(9, "Operating CF > Investing & Financing CF",
                                     "Cash flow strength", passed, details)
    IN  IF empty(cashflow_) THEN mk(FALSE, "No data available")
        ELSE mk(check9_pass, IF check9_pass THEN "Strong operational cash generation"
                             ELSE "Weak cash flow position")

\* the derivation tried before the direct line item
mut_check10_derived_first(cashflow_) ==
    LET mk(passed, details) == Check(10, "Free Cash Flow Growth",
                                     "5-year increasing trend", passed, details)
    IN  IF empty(cashflow_) THEN mk(FALSE, "No data available")
        ELSE IF "Operating Cash Flow" \in cashflow_.index
                /\ "Capital Expenditures" \in cashflow_.index
        THEN LET fcf_calculated == series_add(loc(cashflow_, "Operating Cash Flow"),
                                              loc(cashflow_, "Capital Expenditures"))
                 passed         == check_trend_with_regression(values(fcf_calculated), TRUE)
             IN  mk(passed, IF passed THEN "Improving calculated FCF"
                            ELSE "Declining calculated FCF")
        ELSE IF "Free Cash Flow" \in cashflow_.index
        THEN LET fcf_data == sort_index(loc(cashflow_, "Free Cash Flow"))
                 passed   == check_trend_with_regression(values(fcf_data), TRUE)
             IN  mk(passed, IF passed THEN "Consistent FCF improvement"
                            ELSE "Declining free cash flow")
        ELSE mk(FALSE, "No data available")
\* the derivation attempted with one of its two inputs
mut_check10_either_input(cashflow_) ==
    LET mk(passed, details) == Check(10, "Free Cash Flow Growth",
                                     "5-year increasing trend", passed, details)
    IN  IF empty(cashflow_) THEN mk(FALSE, "No data available")
        ELSE IF "Free Cash Flow" \in cashflow_.index
        THEN LET fcf_data == sort_index(loc(cashflow_, "Free Cash Flow"))
                 passed   == check_trend_with_regression(values(fcf_data), TRUE)
             IN  mk(passed, IF passed THEN "Consistent FCF improvement"
                            ELSE "Declining free cash flow")
        ELSE IF "Operating Cash Flow" \in cashflow_.index
                \/ "Capital Expenditures" \in cashflow_.index
        THEN LET fcf_calculated == series_add(loc(cashflow_, "Operating Cash Flow"),
                                              loc(cashflow_, "Capital Expenditures"))
                 passed         == check_trend_with_regression(values(fcf_calculated), TRUE)
             IN  mk(passed, IF passed THEN "Improving calculated FCF"
                            ELSE "Declining calculated FCF")
        ELSE mk(FALSE, "No data available")
\* 10. Free cash flow trend
check10(cashflow_) ==
    LET mk(passed, details) == Check(10, "Free Cash Flow Growth",
                                     "5-year increasing trend", passed, details)
    IN  IF empty(cashflow_) THEN mk(FALSE, "No data available")
        ELSE IF "Free Cash Flow" \in cashflow_.index
        THEN LET fcf_data == sort_index(loc(cashflow_, "Free Cash Flow"))
                 passed   == check_trend_with_regression(values(fcf_data), TRUE)
             IN  mk(passed, IF passed THEN "Consistent FCF improvement"
                            ELSE "Declining free cash flow")
        ELSE IF "Operating Cash Flow" \in cashflow_.index
                /\ "Capital Expenditures" \in cashflow_.index
        THEN LET fcf_calculated == series_add(loc(cashflow_, "Operating Cash Flow"),
                                              loc(cashflow_, "Capital Expenditures"))
                 passed         == check_trend_with_regression(values(fcf_calculated), TRUE)
             IN  mk(passed, IF passed THEN "Improving calculated FCF"
                            ELSE "Declining calculated FCF")
        ELSE mk(FALSE, "No data available")

\* ------------------------------------------------------------------------
\* The console and the desktop engine
\* ------------------------------------------------------------------------
\* results.append((description, passed)) for the ten checks: the conditions
\* are those of the web engine line for line, the descriptions differ, and
\* neither the size of info is tested nor a report built
console_results(info_, financials_, balance_sheet_, cashflow_) ==
    LET entry(description, passed) == [description |-> description, passed |-> passed]
    IN  <<entry("1. Valuation (" \o check1(info_).details \o ")", check1(info_).passed),
          entry("2. Revenue Growth Trend", check2(financials_).passed),
          entry("3. Operating Income Growth Trend", check3(financials_).passed),
          entry("4. Net Income Growth Trend", check4(financials_).passed),
          entry("5. Current Assets > Current Liabilities", check5(balance_sheet_).passed),
          entry("6. Long-term Debt/Net Profit < 4",
                check6(financials_, balance_sheet_).passed),
          entry("7. Stockholders' Equity Growth Trend", check7(balance_sheet_).passed),
          entry("8. Shares Outstanding Decreasing Trend", check8(balance_sheet_).passed),
          entry("9. Operating CF > Investing & Financing CF", check9(cashflow_).passed),
          entry("10. Free Cash Flow Growth Trend", check10(cashflow_).passed)>>

\* the console's analyze_stock: the list it returns, [] from the except
\* branch
console_analyze_stock(provider_raises, info_, financials_, balance_sheet_, cashflow_) ==
    IF provider_raises THEN <<>>
    ELSE console_results(info_, financials_, balance_sheet_, cashflow_)

\* the desktop's analyze_stock: the list it hands to display_results,
\* nothing when the except branch shows the error box
desktop_analyze_stock(provider_raises, info_, financials_, balance_sheet_, cashflow_) ==
    IF provider_raises THEN <<>>
    ELSE console_results(info_, financials_, balance_sheet_, cashflow_)

\* ------------------------------------------------------------------------
\* The console: display_results and the text typed at its prompts
\* ------------------------------------------------------------------------
\* round(1000 * p / t) to the nearest, an exact tie to even: the percentage
\* in tenths
round_tenths(p, t) ==
    LET q == (1000 * p) \div t
        r == (1000 * p) % t
    IN  IF 2 * r > t \/ (2 * r = t /\ q % 2 = 1) THEN q + 1 ELSE q

\* f"{percentage:.1f}"
fmt_1f(p, t) ==
    IF t = 0 THEN "0.0"
    ELSE ToString(round_tenths(p, t) \div 10) \o "." \o ToString(round_tenths(p, t) % 10)

\* the comparison made strict
mut_percentage_gt(p, t, bound) == IF t > 0 THEN 100 * p > bound * t ELSE 0 > bound

\* percentage >= bound, with percentage = passed_count / total_count * 100
\* if total_count > 0 else 0
percentage_ge(p, t, bound) == IF t > 0 THEN 100 * p >= bound * t ELSE 0 >= bound

\* nothing printed by display_results
NoScore == [score |-> "", assessment |-> ""]

\* display_results(results): the score line and the assessment line
display_results(results) ==
    LET passed_count == Cardinality({i \in 1..Len(results) : results[i].passed})
        total_count  == Len(results)
    IN  [score |-> "FINANCIAL HEALTH SCORE: " \o ToString(passed_count) \o "/"
                   \o ToString(total_count) \o " (" \o fmt_1f(passed_count, total_count)
                   \o "%)",
         assessment |->
             IF percentage_ge(passed_count, total_count, 80)
             THEN "EXCELLENT - Strong financial health"
             ELSE IF percentage_ge(passed_count, total_count, 60)
             THEN "GOOD - Solid financial position"
             ELSE IF percentage_ge(passed_count, total_count, 40)
             THEN "FAIR - Some concerns present"
             ELSE "POOR - Significant financial risks"]

\* A line of input is a sequence of characters.
LowerLetters == <<"a", "b", "c", "d", "e", "f", "g", "h", "i", "j", "k", "l", "m",
                  "n", "o", "p", "q", "r", "s", "t", "u", "v", "w", "x", "y", "z">>
UpperLetters == <<"A", "B", "C", "D", "E", "F", "G", "H", "I", "J", "K", "L", "M",
                  "N", "O", "P", "Q", "R", "S", "T", "U", "V", "W", "X", "Y", "Z">>
Whitespace == {" ", "\t"}

\* str.upper() and str.lower()
upper(text) ==
    [i \in 1..Len(text) |->
        IF \E n \in 1..Len(LowerLetters) : LowerLetters[n] = text[i]
        THEN UpperLetters[CHOOSE n \in 1..Len(LowerLetters) : LowerLetters[n] = text[i]]
        ELSE text[i]]
\* the text left as typed
mut_lower_as_typed(text) == text

lower(text) ==
    [i \in 1..Len(text) |->
        IF \E n \in 1..Len(UpperLetters) : UpperLetters[n] = text[i]
        THEN LowerLetters[CHOOSE n \in 1..Len(UpperLetters) : UpperLetters[n] = text[i]]
        ELSE text[i]]

\* str.strip(): without the whitespace at both ends
strip(text) ==
    LET inked == {i \in 1..Len(text) : text[i] \notin Whitespace}
    IN  IF inked = {} THEN <<>>
        ELSE SubSeq(text, CHOOSE i \in inked : \A j \in inked : i <= j,
                          CHOOSE i \in inked : \A j \in inked : j <= i)

\* what can be typed at the ticker prompt and at the continue question
TickerLines == {<<>>, <<" ", " ">>, <<"q", "u", "i", "t">>, <<" ", "Q", "u", "i", "T", " ">>,
                <<"a", "a", "p", "l">>, <<" ", "M", "s", "f", "t">>,
                <<"q", "u", "i", "t", "s">>}
ContinueLines == {<<"y">>, <<" ", "Y", "E", "S", " ">>, <<"y", "e", "s">>, <<"n">>, <<>>,
                  <<"y", "e", "a", "h">>, <<"N", "o">>}

\* ------------------------------------------------------------------------
\* generate_detailed_analysis: the report, one string per line
\* ------------------------------------------------------------------------
Pad3(n) == IF n < 10 THEN "00" \o ToString(n)
           ELSE IF n < 100 THEN "0" \o ToString(n) ELSE ToString(n)

\* digits of n >= 0 with thousands separators
RECURSIVE group_thousands(_)
group_thousands(n) ==
    IF n < 1000 THEN ToString(n)
    ELSE group_thousands(n \div 1000) \o "," \o Pad3(n % 1000)

\* f"{value:,.0f}" of a float cell
fmt_thousands(x) ==
    IF isnan(x) THEN "nan"
    ELSE (IF x.v < 0 THEN "-" ELSE "") \o group_thousands(abs(x.v))

\* str() of a metric kept in hundredths: shortest text, at least one decimal
py_str(x) ==
    IF x = None THEN "None"
    ELSE (IF x.v < 0 THEN "-" ELSE "") \o ToString(abs(x.v) \div 100) \o "."
         \o (IF abs(x.v) % 10 = 0 THEN ToString((abs(x.v) % 100) \div 10)
             ELSE Pad2(abs(x.v) % 100))

\* info.get(key, 'N/A') put into an f-string
info_text(info_, key) ==
    IF info_[key] = Absent THEN "N/A" ELSE py_str(info_[key])

\* for date, value in series.items(): if pd.notna(value): one line
RECURSIVE series_lines(_, _, _)
series_lines(series, indent, unit) ==
    IF Len(series) = 0 THEN <<>>
    ELSE (IF isnan(series[1].value) THEN <<>>
          ELSE <<indent \o ToString(series[1].date) \o ": " \o unit
                 \o fmt_thousands(series[1].value)>>)
         \o series_lines(Tail(series), indent, unit)

\* a section listing one line item by period
series_section(header, df, item, missing) ==
    <<header>>
    \o (IF ~empty(df) /\ item \in df.index
        THEN series_lines(sort_index(loc(df, item)), "   ", "$")
        ELSE <<missing>>)
    \o <<"">>

\* one "label: $value" line of a latest-period section
latest_line(df, item, label) ==
    IF item \in df.index
    THEN "   " \o label \o "$" \o fmt_thousands(latest_get(df, item))
    ELSE "   " \o label \o "N/A"

\* f"{shares_outstanding:,.0f}" raises TypeError on None
shares_format_raises(info_) == info_["sharesOutstanding"] = None

generate_detailed_analysis(ticker, info_, financials_, balance_sheet_, cashflow_) ==
    <<"STOCK ANALYSIS FOR " \o ticker, "============================================================", "">>
    \o <<"1. Latest PE Ratio: " \o info_text(info_, "trailingPE"),
         "   PEG Ratio: " \o info_text(info_, "trailingPegRatio"), "">>
    \o series_section("2. Revenue for the past 5 years:", financials_, "Total Revenue",
                      "   Revenue data not available")
    \o series_section("3. Operating Income for the past 5 years:", financials_,
                      "Operating Income", "   Operating Income data not available")
    \o series_section("4. Net Income for the past 5 years:", financials_, "Net Income",
                      "   Net Income data not available")
    \o <<"5. Latest Current Assets and Current Liabilities:">>
    \o (IF ~empty(balance_sheet_)
        THEN <<latest_line(balance_sheet_, "Current Assets", "Current Assets: "),
               latest_line(balance_sheet_, "Current Liabilities", "Current Liabilities: ")>>
        ELSE <<"   Balance sheet data not available">>)
    \o <<"">>
    \o <<"6. Latest Long Term Debt:">>
    \o (IF ~empty(balance_sheet_)
        THEN <<latest_line(balance_sheet_, "Long Term Debt", "")>>
        ELSE <<"   Balance sheet data not available">>)
    \o <<"">>
    \o series_section("7. Stockholders' Equity for the past 5 years:", balance_sheet_,
                      "Stockholders Equity", "   Stockholders' Equity data not available")
    \o <<"8. Shares Outstanding for the past 5 years:">>
    \o (IF info_["sharesOutstanding"] # Absent
        THEN <<"   Latest: " \o fmt_thousands(info_["sharesOutstanding"])>>
        ELSE <<"   Current shares outstanding not available">>)
    \o (IF ~empty(balance_sheet_) /\ "Ordinary Shares Number" \in balance_sheet_.index
        THEN series_lines(sort_index(loc(balance_sheet_, "Ordinary Shares Number")), "   ", "")
        ELSE <<>>)
    \o <<"">>
    \o <<"9. Latest Cash Flow Data:">>
    \o (IF ~empty(cashflow_)
        THEN <<latest_line(cashflow_, "Operating Cash Flow", "Operating Cash Flow: "),
               latest_line(cashflow_, "Investing Cash Flow", "Investing Cash Flow: "),
               latest_line(cashflow_, "Financing Cash Flow", "Financing Cash Flow: ")>>
        ELSE <<"   Cash flow data not available">>)
    \o <<"">>
    \o <<"10. Free Cash Flow for the past 5 years:">>
    \o (IF empty(cashflow_) THEN <<"    Cash flow data not available">>
        ELSE IF "Free Cash Flow" \in cashflow_.index
        THEN series_lines(sort_index(loc(cashflow_, "Free Cash Flow")), "    ", "$")
        ELSE IF "Operating Cash Flow" \in cashflow_.index
                /\ "Capital Expenditures" \in cashflow_.index
        THEN <<"    (Calculated as Operating Cash Flow - Capital Expenditures)">>
             \o series_lines(sort_index(series_add(loc(cashflow_, "Operating Cash Flow"),
                                                   loc(cashflow_, "Capital Expenditures"))),
                             "    ", "$")
        ELSE <<"    Free Cash Flow data not available">>)
    \o <<"">>

\* ------------------------------------------------------------------------
\* analyze_stock: the whole call, with its try / except
\* ------------------------------------------------------------------------
Failure(error) == [success |-> FALSE, error |-> error]
Success(checks_, detailed_analysis) ==
    [success |-> TRUE, checks |-> checks_, detailedAnalysis |-> detailed_analysis]

\* the result before any call has returned
NoResult == [success |-> FALSE]

\* where the call can raise: yf.Ticker / stock.info and the statements (the
\* provider), the ValueError of line 55, the format of line 354
RaisePoints == {"provider", "no_data", "report"}

\* `if not info or len(info) < 5`
info_rejected(info_) == len_info(info_) < 5

\* the first point at which the call raises, "" when it returns normally
raise_point(provider_raises, info_) ==
    IF provider_raises THEN "provider"
    ELSE IF info_rejected(info_) THEN "no_data"
    ELSE IF shares_format_raises(info_) THEN "report"
    ELSE ""

\* the tenth check is never appended
mut_local_checks_nine(raised, info_, financials_, balance_sheet_, cashflow_) ==
    IF raised \in {"provider", "no_data"} THEN <<>>
    ELSE <<check1(info_), check2(financials_), check3(financials_), check4(financials_),
           check5(balance_sheet_), check6(financials_, balance_sheet_),
           check7(balance_sheet_), check8(balance_sheet_), check9(cashflow_)>>
\* a check that follows a failed check is reported as failed
mut_local_checks_short_circuit(raised, info_, financials_, balance_sheet_, cashflow_) ==
    LET all == <<check1(info_), check2(financials_), check3(financials_), check4(financials_),
                 check5(balance_sheet_), check6(financials_, balance_sheet_),
                 check7(balance_sheet_), check8(balance_sheet_), check9(cashflow_),
                 check10(cashflow_)>>
    IN  IF raised \in {"provider", "no_data"} THEN <<>>
        ELSE [i \in 1..10 |->
                [all[i] EXCEPT !.passed = \A j \in 1..i : all[j].passed]]
\* the local list `checks` when the call leaves the try block
local_checks(raised, info_, financials_, balance_sheet_, cashflow_) ==
    IF raised \in {"provider", "no_data"} THEN <<>>
    ELSE <<check1(info_), check2(financials_), check3(financials_), check4(financials_),
           check5(balance_sheet_), check6(financials_, balance_sheet_),
           check7(balance_sheet_), check8(balance_sheet_), check9(cashflow_),
           check10(cashflow_)>>

\* str(e) of the exception caught at line 256
error_text(raised, ticker) ==
    IF raised = "provider" THEN "provider error"
    ELSE IF raised = "no_data" THEN "No data found for ticker " \o ticker
    ELSE "unsupported format string passed to NoneType.__format__"

\* the except branch hands out the checks computed so far
mut_returned_with_partial_checks(raised, ticker, checks_, detailed_analysis) ==
    IF raised # "" THEN [success |-> FALSE, error |-> error_text(raised, ticker),
                         checks |-> checks_]
    ELSE Success(checks_, detailed_analysis)
\* the dict analyze_stock returns (lines 250-260)
returned(raised, ticker, checks_, detailed_analysis) ==
    IF raised # "" THEN Failure(error_text(raised, ticker))
    ELSE Success(checks_, detailed_analysis)

\* ------------------------------------------------------------------------
\* State
\* ------------------------------------------------------------------------
VARIABLES
    data_series,   \* the series handed to the trend detector on its own
    called,        \* the directions the detector was called with on it
    verdict,       \* what it returned, by direction
    stock,         \* what the provider holds: info, financials, balance_sheet, cashflow
    updates,       \* provider data changes so far
    pc,            \* "idle" before analyze_stock is called, "done" after it returned
    ticker,        \* the argument of the call
    raised,        \* where the call raised, "" if it did not
    checks,        \* the local list `checks` when the call left the try block
    result,        \* the dict the call returned
    history,       \* the calls made so far: what each was given and returned
    prompt,        \* where the console loop waits: "ticker", "continue", or "exited"
    typed,         \* the line the console read last
    reads,         \* lines the console has read
    analyses,      \* analyses the console loop has run
    console_raised,    \* whether the console's last analysis ended in its except branch
    console_returned,  \* the list the console's analyze_stock returned last
    printed,       \* the score block that analysis printed
    shown_results, \* the list display_results was called with on its own
    shown          \* the score block it printed

vars == <<data_series, called, verdict, stock, updates, pc, ticker, raised, checks, result,
          history, prompt, typed, reads, analyses, console_raised,
          console_returned, printed, shown_results, shown>>
trend_vars  == <<data_series, called, verdict>>
scorer_vars == <<stock, updates, pc, ticker, raised, checks, result, history>>
console_vars == <<prompt, typed, reads, analyses, console_raised, console_returned,
                  printed, shown_results, shown>>

\* ------------------------------------------------------------------------
\* The snapshots the provider can hold
\* ------------------------------------------------------------------------
\* a row whose latest value is a and that changes by b per period
Lin(a, b) == [p \in Periods |-> Num(a + b * (p - NumPeriods))]
\* the same row with the latest period missing
LatestMissing(a, b) == [p \in Periods |-> IF p = NumPeriods THEN NaN ELSE Lin(a, b)[p]]
\* a row with the latest period only
OnlyLatest(a) == [p \in Periods |-> IF p = NumPeriods THEN Num(a) ELSE NaN]
NoRow == [p \in Periods |-> NaN]

\* the provider returns statement columns newest first
NewestFirst == [i \in 1..NumPeriods |-> NumPeriods + 1 - i]
Reverse(columns) == [i \in 1..Len(columns) |-> columns[Len(columns) + 1 - i]]

Tables == {"financials", "balance_sheet", "cashflow"}
ItemsOf(t) == CASE t = "financials" -> FinItems
                [] t = "balance_sheet" -> BsItems
                [] t = "cashflow" -> CfItems

BaseRow(item) ==
    CASE item = "Total Revenue"          -> Lin(1000, 100)
      [] item = "Operating Income"       -> Lin(300, 50)
      [] item = "Net Income"             -> Lin(200, 50)
      [] item = "Current Assets"         -> Lin(500, 300)
      [] item = "Current Liabilities"    -> Lin(300, 0)
      [] item = "Long Term Debt"         -> Lin(400, 0)
      [] item = "Stockholders Equity"    -> Lin(900, 100)
      [] item = "Ordinary Shares Number" -> Lin(1000, -10)
      [] item = "Operating Cash Flow"    -> Lin(100, 20)
      [] item = "Investing Cash Flow"    -> Lin(-50, 0)
      [] item = "Financing Cash Flow"    -> Lin(-60, 0)
      [] item = "Free Cash Flow"         -> Lin(70, 10)
      [] item = "Capital Expenditures"   -> Lin(-30, -10)

\* the other rows a line item can have
OtherRows(item) ==
    CASE item = "Total Revenue"          -> {Lin(1000, -100), Lin(1000, 0), OnlyLatest(1000),
                                             NoRow}
      [] item = "Operating Income"       -> {Lin(300, -50), Lin(300, 0), OnlyLatest(300)}
      [] item = "Net Income"             -> {Lin(200, -50), Lin(0, 50), Lin(-200, 50),
                                             LatestMissing(200, 50)}
      [] item = "Current Assets"         -> {Lin(300, 0), Lin(100, -100), LatestMissing(500, 300)}
      [] item = "Current Liabilities"    -> {Lin(0, 0), LatestMissing(300, 0)}
      [] item = "Long Term Debt"         -> {Lin(800, 0), Lin(1000, 0), LatestMissing(400, 0)}
      [] item = "Stockholders Equity"    -> {Lin(900, -100), Lin(900, 0), OnlyLatest(900)}
      [] item = "Ordinary Shares Number" -> {Lin(1000, 10), Lin(1000, 0), OnlyLatest(1000)}
      [] item = "Operating Cash Flow"    -> {Lin(50, 20), Lin(100, -20), LatestMissing(100, 20)}
      [] item = "Investing Cash Flow"    -> {Lin(50, 0), Lin(-100, 0), LatestMissing(-50, 0)}
      [] item = "Financing Cash Flow"    -> {Lin(-100, 0), LatestMissing(-60, 0)}
      [] item = "Free Cash Flow"         -> {Lin(70, -10), Lin(70, 0), OnlyLatest(70)}
      [] item = "Capital Expenditures"   -> {Lin(-30, 30), LatestMissing(-30, -10)}

BaseTable(t) == [columns |-> NewestFirst, index |-> ItemsOf(t),
                 cell |-> [item \in ItemsOf(t) |-> BaseRow(item)]]

\* P/E 20.00, no PEG, and enough other keys for the dict to be accepted
BaseInfo == [trailingPE |-> Num(2000), trailingPegRatio |-> Absent,
             sharesOutstanding |-> Num(1000), other_keys |-> 5]

\* the other values a key of info can have (metrics in hundredths)
OtherInfo(key) ==
    CASE key = "trailingPE"        -> {Absent, Num(0), Num(99), Num(2500)}
      [] key = "trailingPegRatio"  -> {Num(0), Num(99), Num(100)}
      [] key = "sharesOutstanding" -> {Absent, None}

Tickers == {"AAPL", "ZZZZ"}

\* ------------------------------------------------------------------------
\* Initial states
\* ------------------------------------------------------------------------
BaseStock == [info |-> BaseInfo, financials |-> BaseTable("financials"),
              balance_sheet |-> BaseTable("balance_sheet"), cashflow |-> BaseTable("cashflow")]

\* an empty DataFrame
EmptyTable(t) == [columns |-> <<>>, index |-> {}, cell |-> [item \in ItemsOf(t) |-> NoRow]]

\* a ticker the provider knows but has no figures for
BareStock == [info |-> [trailingPE |-> Absent, trailingPegRatio |-> Absent,
                        sharesOutstanding |-> Absent, other_keys |-> 5],
              financials |-> EmptyTable("financials"),
              balance_sheet |-> EmptyTable("balance_sheet"),
              cashflow |-> EmptyTable("cashflow")]

ScorerIdle(s) ==
    /\ stock = s
    /\ updates = 0
    /\ pc = "idle"
    /\ ticker = ""
    /\ raised = ""
    /\ checks = <<>>
    /\ result = NoResult
    /\ history = <<>>

TrendIdle(series) ==
    /\ data_series = series
    /\ called = {}
    /\ verdict = [increasing \in BOOLEAN |-> FALSE]

\* the console before its loop reads anything
ConsoleIdle ==
    /\ prompt = "ticker"
    /\ typed = <<>>
    /\ reads = 0
    /\ analyses = 0
    /\ console_raised = FALSE
    /\ console_returned = <<>>
    /\ printed = NoScore
    /\ shown_results = <<>>
    /\ shown = NoScore

\* the scorer, on the snapshots the provider starts with
Init == TrendIdle(<<>>) /\ ConsoleIdle /\ \E s \in {BaseStock, BareStock} : ScorerIdle(s)

\* the trend detector on a series of its own
InitTrend == (\E series \in SeqsUpTo(TrendVals, MaxLen) : TrendIdle(series))
             /\ ScorerIdle(BaseStock) /\ ConsoleIdle

\* the base snapshot with some of its statements empty
Without(ts) ==
    [info |-> BaseInfo,
     financials |-> IF "financials" \in ts THEN EmptyTable("financials")
                    ELSE BaseTable("financials"),
     balance_sheet |-> IF "balance_sheet" \in ts THEN EmptyTable("balance_sheet")
                       ELSE BaseTable("balance_sheet"),
     cashflow |-> IF "cashflow" \in ts THEN EmptyTable("cashflow") ELSE BaseTable("cashflow")]

\* the console, on a snapshot with any of the statements empty
InitConsole == TrendIdle(<<>>) /\ ConsoleIdle
               /\ \E ts \in SUBSET Tables : ScorerIdle(Without(ts))

\* ------------------------------------------------------------------------
\* The provider's data changes before the call
\* ------------------------------------------------------------------------
Update(new_stock) ==
    /\ pc = "idle"
    /\ updates < MaxUpdates
    /\ stock' = new_stock
    /\ updates' = updates + 1
    /\ UNCHANGED <<pc, ticker, raised, checks, result, history, trend_vars, console_vars>>

\* a key of info gets another value, or goes away
WithInfo(s, key, x) == [s EXCEPT !.info[key] = x]
SetInfo == \E key \in InfoKeys : \E x \in OtherInfo(key) : Update(WithInfo(stock, key, x))

\* info has few other keys
WithFewKeys(s) == [s EXCEPT !.info.other_keys = 2]
ShrinkInfo == Update(WithFewKeys(stock))

\* a statement comes back as an empty DataFrame
WithTable(s, t, df) == [s EXCEPT ![t] = df]
ClearTable == \E t \in Tables : Update(WithTable(stock, t, EmptyTable(t)))

\* an empty statement comes back filled
RestoreTable == \E t \in Tables :
    /\ empty(stock[t])
    /\ Update(WithTable(stock, t, BaseTable(t)))

\* a statement comes back oldest period first
WithColumnsReversed(s, t) == [s EXCEPT ![t].columns = Reverse(@)]
ReverseColumns == \E t \in Tables : Update(WithColumnsReversed(stock, t))

\* a line item is not in a statement
WithoutItem(s, t, item) == [s EXCEPT ![t].index = @ \ {item}, ![t].cell[item] = NoRow]
RemoveItem == \E t \in Tables : \E item \in stock[t].index :
    Update(WithoutItem(stock, t, item))

\* a line item has other values
WithRow(s, t, item, row) == [s EXCEPT ![t].cell[item] = row]
SetRow == \E t \in Tables : \E item \in stock[t].index : \E row \in OtherRows(item) :
    /\ Len(stock[t].columns) > 0
    /\ Update(WithRow(stock, t, item, row))

\* ------------------------------------------------------------------------
\* analyze_stock(ticker)
\* ------------------------------------------------------------------------
\* the list of checks kept from one call to the next
mut_AnalyzeStock_keeps_checks == \E tk \in Tickers : \E provider_raises \in BOOLEAN :
    LET raised_  == raise_point(provider_raises, stock.info)
        checks_  == checks \o local_checks(raised_, stock.info, stock.financials,
                                 stock.balance_sheet, stock.cashflow)
        analysis == IF raised_ = "" THEN generate_detailed_analysis(
                        tk, stock.info, stock.financials, stock.balance_sheet, stock.cashflow)
                    ELSE <<>>
    IN  /\ pc = "idle"
        /\ pc' = "done"
        /\ ticker' = tk
        /\ raised' = raised_
        /\ checks' = checks_
        /\ result' = returned(raised_, tk, checks_, analysis)
        /\ history' = Append(history, [ticker |-> tk, provider_raises |-> provider_raises,
                                       stock |-> stock,
                                       result |-> returned(raised_, tk, checks_, analysis)])
        /\ UNCHANGED <<stock, updates, trend_vars, console_vars>>

\* analyze_stock(ticker): the whole call
AnalyzeStock == \E tk \in Tickers : \E provider_raises \in BOOLEAN :
    LET raised_  == raise_point(provider_raises, stock.info)
        checks_  == local_checks(raised_, stock.info, stock.financials,
                                 stock.balance_sheet, stock.cashflow)
        analysis == IF raised_ = "" THEN generate_detailed_analysis(
                        tk, stock.info, stock.financials, stock.balance_sheet, stock.cashflow)
                    ELSE <<>>
    IN  /\ pc = "idle"
        /\ pc' = "done"
        /\ ticker' = tk
        /\ raised' = raised_
        /\ checks' = checks_
        /\ result' = returned(raised_, tk, checks_, analysis)
        /\ history' = Append(history, [ticker |-> tk, provider_raises |-> provider_raises,
                                       stock |-> stock,
                                       result |-> returned(raised_, tk, checks_, analysis)])
        /\ UNCHANGED <<stock, updates, trend_vars, console_vars>>

\* check_trend_with_regression(data_series, increasing)
CheckTrend == \E increasing \in BOOLEAN :
    /\ increasing \notin called
    /\ called' = called \cup {increasing}
    /\ verdict' = [verdict EXCEPT ![increasing] =
                      check_trend_with_regression(data_series, increasing)]
    /\ UNCHANGED <<data_series, scorer_vars, console_vars>>

Next == SetInfo \/ ShrinkInfo \/ ClearTable \/ RestoreTable \/ ReverseColumns
        \/ RemoveItem \/ SetRow \/ AnalyzeStock

Spec == Init /\ [][Next]_vars

NextTrend == CheckTrend

\* run_financial_health_checker: the ticker prompt and what follows it up to
\* the next input()
ReadTicker == \E line \in TickerLines : \E provider_raises \in BOOLEAN :
    LET con_ticker == upper(strip(line))
        results    == console_analyze_stock(provider_raises, stock.info, stock.financials,
                                            stock.balance_sheet, stock.cashflow)
    IN  /\ prompt = "ticker"
        /\ reads < MaxReads
        /\ typed' = line
        /\ reads' = reads + 1
        /\ IF lower(con_ticker) = <<"q", "u", "i", "t">>
           THEN /\ prompt' = "exited"
                /\ UNCHANGED <<analyses, console_raised, console_returned, printed>>
           ELSE IF con_ticker = <<>>
           THEN /\ prompt' = "ticker"
                /\ UNCHANGED <<analyses, console_raised, console_returned, printed>>
           ELSE /\ analyses' = analyses + 1
                /\ console_raised' = provider_raises
                /\ console_returned' = results
                /\ printed' = IF provider_raises THEN NoScore ELSE display_results(results)
                /\ prompt' = "continue"
        /\ UNCHANGED <<shown_results, shown, trend_vars, scorer_vars>>

\* the continue question
ReadContinue == \E line \in ContinueLines :
    LET continue_analysis == lower(strip(line))
    IN  /\ prompt = "continue"
        /\ reads < MaxReads
        /\ typed' = line
        /\ reads' = reads + 1
        /\ prompt' = IF continue_analysis \in {<<"y">>, <<"y", "e", "s">>}
                     THEN "ticker" ELSE "exited"
        /\ UNCHANGED <<analyses, console_raised, console_returned, printed,
                       shown_results, shown, trend_vars, scorer_vars>>

\* the lists display_results is called with on its own
ResultLists ==
    SeqsUpTo({[description |-> "check", passed |-> b] : b \in BOOLEAN}, MaxResults)

\* display_results(results)
DisplayResults == \E results \in ResultLists :
    /\ shown = NoScore
    /\ shown_results' = results
    /\ shown' = display_results(results)
    /\ UNCHANGED <<prompt, typed, reads, analyses, console_raised, console_returned,
                   printed, trend_vars, scorer_vars>>

NextConsole == ReadTicker \/ ReadContinue \/ DisplayResults

SpecConsole == InitConsole /\ [][NextConsole]_vars

\* the web application takes the next request: /analyze/<ticker> builds a
\* checker and calls analyze_stock again
NextRequest ==
    /\ pc = "done"
    /\ Len(history) < MaxCalls
    /\ pc' = "idle"
    /\ UNCHANGED <<stock, updates, ticker, raised, checks, result, history, trend_vars, console_vars>>

\* requests one after the other, the provider's statements and info coming
\* and going in between
NextSession == ShrinkInfo \/ ClearTable \/ RestoreTable \/ AnalyzeStock \/ NextRequest

SpecSession == Init /\ [][NextSession]_vars

SpecTrend == InitTrend /\ [][NextTrend]_vars

\* ------------------------------------------------------------------------
\* Properties of the trend detector (SpecTrend)
\* ------------------------------------------------------------------------
\* the positions of a series that hold a value
Retained(series) == {i \in 1..Len(series) : series[i] # NaN}

\* n * SUM(x*v) - SUM(x) * SUM(v) over the retained points, x the zero-based
\* position of the point in the series
OlsNumerator(series) ==
    LET keep == Retained(series)
        x    == [i \in keep |-> i - 1]
        v    == [i \in keep |-> series[i].v]
    IN  Cardinality(keep) * SumOver([i \in keep |-> x[i] * v[i]], keep)
        - SumOver(x, keep) * SumOver(v, keep)

StrictlyIncreasing(series) ==
    /\ Cardinality(Retained(series)) >= 2
    /\ \A i, j \in Retained(series) : i < j => series[i].v < series[j].v
StrictlyDecreasing(series) ==
    /\ Cardinality(Retained(series)) >= 2
    /\ \A i, j \in Retained(series) : i < j => series[i].v > series[j].v

\* C5: a series with fewer than 2 non-missing points has no trend in either
\* direction: every call made on it returned false.
C5_FewPointsNoTrend ==
    \A increasing \in called :
        Cardinality(Retained(data_series)) < 2 => verdict[increasing] = FALSE

\* a series of 3 or more entries of which one holds a value, asked both ways
C5_Witness ==
    /\ called = BOOLEAN
    /\ Len(data_series) >= 3
    /\ Cardinality(Retained(data_series)) = 1

\* C6: a series whose least-squares slope is exactly zero has no trend in
\* either direction.
C6_ZeroSlopeNoTrend ==
    \A increasing \in called :
        (Cardinality(Retained(data_series)) >= 2 /\ OlsNumerator(data_series) = 0)
            => verdict[increasing] = FALSE

\* 1, 3, 1: not constant, and its regression line is flat
C6_Witness ==
    /\ called = BOOLEAN
    /\ data_series = <<Num(1), Num(3), Num(1)>>

\* C7: a strictly increasing series is increasing and not decreasing, a
\* strictly decreasing series is decreasing and not increasing.
C7_MonotoneSeries ==
    /\ StrictlyIncreasing(data_series) =>
          /\ TRUE \in called => verdict[TRUE] = TRUE
          /\ FALSE \in called => verdict[FALSE] = FALSE
    /\ StrictlyDecreasing(data_series) =>
          /\ TRUE \in called => verdict[TRUE] = FALSE
          /\ FALSE \in called => verdict[FALSE] = TRUE

\* 6, 3, 1, 0 asked both ways
C7_Witness ==
    /\ called = BOOLEAN
    /\ Len(data_series) >= 3
    /\ Retained(data_series) = 1..Len(data_series)
    /\ StrictlyDecreasing(data_series)
    /\ verdict[FALSE] = TRUE

\* C8: the verdict is the sign of n*SUM(x*v) - SUM(x)*SUM(v) over the
\* retained points and nothing else: increasing iff it is > 0, decreasing
\* iff it is < 0, and never both.
C8_SlopeSignDecides ==
    /\ \A increasing \in called :
          verdict[increasing] = (IF increasing THEN OlsNumerator(data_series) > 0
                                 ELSE OlsNumerator(data_series) < 0)
    /\ ~(verdict[TRUE] /\ verdict[FALSE])

\* 0, 6, missing, 1: decreasing because the last point keeps position 3
C8_Witness ==
    /\ called = BOOLEAN
    /\ data_series = <<Num(0), Num(6), NaN, Num(1)>>
    /\ verdict[FALSE] = TRUE

\* the series with its missing entries deleted
RECURSIVE Deleted(_)
Deleted(series) ==
    IF Len(series) = 0 THEN <<>>
    ELSE (IF series[1] = NaN THEN <<>> ELSE <<series[1]>>) \o Deleted(Tail(series))

\* no missing entry lies between two retained entries
NoGap(series) ==
    \A i, j \in Retained(series) : \A k \in i..j : k \in Retained(series)

\* C24 as claimed: the verdict on a series is the verdict on the series with
\* its missing entries deleted.
C24_SameAsDeleted ==
    \A increasing \in called :
        verdict[increasing] = check_trend_with_regression(Deleted(data_series), increasing)

\* C24 as amended: a retained entry keeps its position in the original
\* series as its index, so the verdict is that of the series with the
\* missing entries deleted when the missing entries are all before the first
\* or after the last retained entry.
C24_SameAsDeletedWithoutGap ==
    \A increasing \in called :
        NoGap(data_series) =>
            verdict[increasing] = check_trend_with_regression(Deleted(data_series), increasing)

\* missing, 0, 6: increasing, as 0, 6 is
C24_Witness ==
    /\ called = BOOLEAN
    /\ data_series = <<NaN, Num(0), Num(6)>>
    /\ verdict[TRUE] = TRUE
    /\ check_trend_with_regression(<<Num(0), Num(6)>>, TRUE)

\* ------------------------------------------------------------------------
\* Properties of the scorer (Spec)
\* ------------------------------------------------------------------------
Returned == pc = "done"
\* the provider answered and the info dict was accepted
Retrieved == Returned /\ raised \notin {"provider", "no_data"}

\* a key of info holds a value
Present(x) == x # Absent /\ x # None

\* a line item is in a statement that is not empty
HasItem(s, t, item) == item \in s[t].index /\ Len(s[t].columns) > 0
\* a line item has no value in the period the check takes for the latest
NoLatest(s, t, item) == ~HasItem(s, t, item) \/ s[t].cell[item][s[t].columns[1]] = NaN

\* C1: a success carries exactly ten checks, with ids 1..10 in that order,
\* whatever is missing from the snapshot.
C1_TenChecksInOrder ==
    result.success =>
        /\ Len(result.checks) = 10
        /\ \A i \in 1..10 : result.checks[i].id = i

\* a success on a snapshot with no metric and three empty statements
C1_Witness ==
    /\ Returned
    /\ result.success
    /\ stock = BareStock

\* C2: a call returns either a success with all ten checks and the report,
\* or a failure with the error text alone; a failure never carries checks,
\* also when the local list already held some.
C2_AllOrNothing ==
    Returned =>
        \/ /\ result.success
           /\ raised = ""
           /\ DOMAIN result = {"success", "checks", "detailedAnalysis"}
           /\ Len(result.checks) = 10
           /\ Len(result.detailedAnalysis) > 0
        \/ /\ ~result.success
           /\ raised \in RaisePoints
           /\ DOMAIN result = {"success", "error"}

\* a failure raised after the ten checks were appended to the local list
C2_Witness ==
    /\ Returned
    /\ ~result.success
    /\ Len(checks) = 10
    /\ DOMAIN result = {"success", "error"}

\* the input a check cannot do without is missing
InputAbsent(k, s) ==
    CASE k = 1  -> ~Present(s.info.trailingPE) /\ ~Present(s.info.trailingPegRatio)
      [] k = 2  -> ~HasItem(s, "financials", "Total Revenue")
      [] k = 3  -> ~HasItem(s, "financials", "Operating Income")
      [] k = 4  -> ~HasItem(s, "financials", "Net Income")
      [] k = 5  -> NoLatest(s, "balance_sheet", "Current Assets")
                   \/ NoLatest(s, "balance_sheet", "Current Liabilities")
      [] k = 6  -> NoLatest(s, "balance_sheet", "Long Term Debt")
                   \/ NoLatest(s, "financials", "Net Income")
      [] k = 7  -> ~HasItem(s, "balance_sheet", "Stockholders Equity")
      [] k = 8  -> ~HasItem(s, "balance_sheet", "Ordinary Shares Number")
      [] k = 9  -> NoLatest(s, "cashflow", "Operating Cash Flow")
                   \/ NoLatest(s, "cashflow", "Investing Cash Flow")
                   \/ NoLatest(s, "cashflow", "Financing Cash Flow")
      [] k = 10 -> /\ ~HasItem(s, "cashflow", "Free Cash Flow")
                   /\ \/ ~HasItem(s, "cashflow", "Operating Cash Flow")
                      \/ ~HasItem(s, "cashflow", "Capital Expenditures")

\* C3: once retrieval succeeded the call is a success whatever is missing,
\* and every check whose required input is missing has passed = false.
C3_AbsenceNeverAnError ==
    Retrieved =>
        /\ result.success
        /\ \A k \in 1..10 : InputAbsent(k, stock) => ~result.checks[k].passed

\* the snapshots one provider change away from s
Variants(s) ==
    UNION {{WithInfo(s, key, x) : x \in OtherInfo(key)} : key \in InfoKeys}
    \cup {WithFewKeys(s)}
    \cup {WithTable(s, t, EmptyTable(t)) : t \in Tables}
    \cup {WithTable(s, t, BaseTable(t)) : t \in {u \in Tables : empty(s[u])}}
    \cup {WithColumnsReversed(s, t) : t \in Tables}
    \cup UNION {{WithoutItem(s, t, item) : item \in s[t].index} : t \in Tables}
    \cup UNION {UNION {{WithRow(s, t, item, row) : row \in OtherRows(item)} :
                         item \in s[t].index} :
                  t \in {u \in Tables : Len(s[u].columns) > 0}}

\* a snapshot on which the call is a success
Analysable(s) == len_info(s.info) >= 5 /\ s.info.sharesOutstanding # None

\* the ten checks of a snapshot
ChecksOf(s) == local_checks("", s.info, s.financials, s.balance_sheet, s.cashflow)

\* a line item as the provider supplied it: its values by period, and the
\* order of the columns they came in
Supplied(s, t, item) ==
    IF item \in s[t].index
    THEN [present |-> TRUE, columns |-> s[t].columns, row |-> s[t].cell[item]]
    ELSE [present |-> FALSE, columns |-> <<>>, row |-> NoRow]

\* the statement and the line items a check reads
TableOf(item) == IF item \in FinItems THEN "financials"
                 ELSE IF item \in BsItems THEN "balance_sheet" ELSE "cashflow"
ItemsRead(k) ==
    CASE k = 1  -> {}
      [] k = 2  -> {"Total Revenue"}
      [] k = 3  -> {"Operating Income"}
      [] k = 4  -> {"Net Income"}
      [] k = 5  -> {"Current Assets", "Current Liabilities"}
      [] k = 6  -> {"Long Term Debt", "Net Income"}
      [] k = 7  -> {"Stockholders Equity"}
      [] k = 8  -> {"Ordinary Shares Number"}
      [] k = 9  -> {"Operating Cash Flow", "Investing Cash Flow", "Financing Cash Flow"}
      [] k = 10 -> {"Free Cash Flow", "Operating Cash Flow", "Capital Expenditures"}

\* two snapshots agree on the inputs of check k
AgreeOn(k, s1, s2) ==
    /\ k = 1 => /\ s1.info.trailingPE = s2.info.trailingPE
                /\ s1.info.trailingPegRatio = s2.info.trailingPegRatio
    /\ \A item \in ItemsRead(k) :
          Supplied(s1, TableOf(item), item) = Supplied(s2, TableOf(item), item)

\* the statements check k reads are empty in both snapshots or in neither
SameEmptiness(k, s1, s2) ==
    \A item \in ItemsRead(k) : empty(s1[TableOf(item)]) = empty(s2[TableOf(item)])

C9_ValuationRule ==
    result.success =>
        (result.checks[1].passed <=>
            \/ Present(stock.info.trailingPE) /\ stock.info.trailingPE.v < 2500
            \/ Present(stock.info.trailingPegRatio) /\ stock.info.trailingPegRatio.v < 100)

\* P/E exactly 25 fails its condition and PEG 0.99 passes the check
C9_Witness ==
    /\ Returned
    /\ result.success
    /\ stock.info.trailingPE = Num(2500)
    /\ stock.info.trailingPegRatio = Num(99)
    /\ result.checks[1].passed

\* the text the details of check 1 are claimed to hold for one metric
ClaimedText(label, x) ==
    IF Present(x) THEN label \o ": " \o fmt_2f(x) ELSE label \o ": N/A"

\* C10: the details of check 1 show each present metric with two decimals
\* and "N/A" exactly for an absent metric.
C10_DetailsShowPresentMetrics ==
    result.success =>
        result.checks[1].details =
            ClaimedText("PE", stock.info.trailingPE) \o ", "
            \o ClaimedText("PEG", stock.info.trailingPegRatio)

\* ------------------------------------------------------------------------
\* Properties of the single checks (Spec)
\* ------------------------------------------------------------------------
\* the period labels of a statement
PeriodsOf(df) == {df.columns[i] : i \in 1..Len(df.columns)}
\* the greatest period label of a statement that is not empty
LatestPeriod(df) == CHOOSE p \in PeriodsOf(df) : \A q \in PeriodsOf(df) : q <= p

\* the values of a line item from the oldest period to the latest
AscendingValues(s, item) ==
    LET df == s[TableOf(item)]
        P  == PeriodsOf(df)
    IN  [i \in 1..Cardinality(P) |->
            df.cell[item][CHOOSE p \in P : Cardinality({q \in P : q < p}) = i - 1]]

\* check k of a snapshot
CheckOn(k, s) ==
    CASE k = 1  -> check1(s.info)
      [] k = 2  -> check2(s.financials)
      [] k = 3  -> check3(s.financials)
      [] k = 4  -> check4(s.financials)
      [] k = 5  -> check5(s.balance_sheet)
      [] k = 6  -> check6(s.financials, s.balance_sheet)
      [] k = 7  -> check7(s.balance_sheet)
      [] k = 8  -> check8(s.balance_sheet)
      [] k = 9  -> check9(s.cashflow)
      [] k = 10 -> check10(s.cashflow)

\* the line item of a growth check
GrowthItem(k) ==
    CASE k = 2 -> "Total Revenue"
      [] k = 3 -> "Operating Income"
      [] k = 4 -> "Net Income"
      [] k = 7 -> "Stockholders Equity"

\* C11: each of checks 2, 3, 4 and 7 passes exactly when its line item is
\* present and the trend detector finds an increasing trend on the item's
\* values from the oldest period to the latest; the verdict is the same with
\* the columns of the table in the opposite order, and a missing line item
\* gives passed = false with "No data available".
C11_GrowthChecks ==
    result.success =>
        \A k \in {2, 3, 4, 7} :
            LET item == GrowthItem(k)
                t    == TableOf(item)
            IN  /\ result.checks[k].passed =
                      (/\ HasItem(stock, t, item)
                       /\ check_trend_with_regression(AscendingValues(stock, item), TRUE))
                /\ ~HasItem(stock, t, item) =>
                      result.checks[k].details = "No data available"
                /\ CheckOn(k, WithColumnsReversed(stock, t)).passed = result.checks[k].passed

\* revenue grows and comes newest first, operating income declines, and the
\* balance sheet has no Stockholders Equity
C11_Witness ==
    /\ Returned
    /\ result.success
    /\ stock.financials.columns = NewestFirst
    /\ result.checks[2].passed
    /\ HasItem(stock, "financials", "Operating Income")
    /\ ~result.checks[3].passed
    /\ ~empty(stock.balance_sheet)
    /\ ~HasItem(stock, "balance_sheet", "Stockholders Equity")
    /\ result.checks[7].details = "No data available"

\* every period of a line item holds a value and none is below the one before
NeverFalls(series) ==
    /\ Retained(series) = 1..Len(series)
    /\ \A i \in 1..(Len(series) - 1) : series[i].v <= series[i + 1].v

\* C12: check 8 passes exactly when Ordinary Shares Number is present and
\* the trend detector finds a decreasing trend on its values from the oldest
\* period to the latest; a share count that rises or stays flat, or a
\* missing line item, gives passed = false.
C12_ShareBuybacks ==
    result.success =>
        LET has == HasItem(stock, "balance_sheet", "Ordinary Shares Number")
        IN  /\ result.checks[8].passed =
                  (/\ has
                   /\ check_trend_with_regression(
                          AscendingValues(stock, "Ordinary Shares Number"), FALSE))
            /\ (has /\ NeverFalls(AscendingValues(stock, "Ordinary Shares Number")))
                  => ~result.checks[8].passed
            /\ ~has => ~result.checks[8].passed

\* a share count that falls from one period to the next passes, the table
\* coming newest first
C12_Witness ==
    /\ Returned
    /\ result.success
    /\ stock.balance_sheet.columns = NewestFirst
    /\ HasItem(stock, "balance_sheet", "Ordinary Shares Number")
    /\ StrictlyDecreasing(AscendingValues(stock, "Ordinary Shares Number"))
    /\ result.checks[8].passed

\* a line item holds a value in the latest period of its statement
HasLatest(s, item) ==
    LET df == s[TableOf(item)]
    IN  /\ HasItem(s, TableOf(item), item)
        /\ df.cell[item][LatestPeriod(df)] # NaN
\* the value of a line item in the latest period of its statement
LatestValue(s, item) ==
    LET df == s[TableOf(item)] IN df.cell[item][LatestPeriod(df)]

\* C13: check 5 passes exactly when Current Assets and Current Liabilities
\* both hold a value in the latest period (the greatest period label of the
\* balance sheet) and assets > liabilities there, equal values failing,
\* whatever the order of the columns of the balance sheet.
C13_LatestPeriodLiquidity ==
    result.success =>
        (result.checks[5].passed <=>
            /\ HasLatest(stock, "Current Assets")
            /\ HasLatest(stock, "Current Liabilities")
            /\ LatestValue(stock, "Current Assets").v
                  > LatestValue(stock, "Current Liabilities").v)

\* the same on the balance sheets that come newest first
C13_NewestFirstOnly ==
    (result.success /\ ~empty(stock.balance_sheet)
                    /\ stock.balance_sheet.columns = NewestFirst)
        => C13_LatestPeriodLiquidity

\* a detail that says data is missing and gives no ratio
SaysIncomplete(details) ==
    details \in {"Balance sheet data incomplete", "No data available"}

\* C14: whenever Current Assets or Current Liabilities has no value for the
\* latest period (line item absent, latest value missing, or balance sheet
\* empty), check 5 has passed = false and its details say that the data is
\* incomplete instead of giving a ratio.
C14_IncompleteLiquidityData ==
    (result.success /\ (~HasLatest(stock, "Current Assets")
                        \/ ~HasLatest(stock, "Current Liabilities")))
        => /\ ~result.checks[5].passed
           /\ SaysIncomplete(result.checks[5].details)

\* the same when the line item itself is absent or the balance sheet empty
C14_AbsentItemOnly ==
    (result.success /\ (~HasItem(stock, "balance_sheet", "Current Assets")
                        \/ ~HasItem(stock, "balance_sheet", "Current Liabilities")))
        => /\ ~result.checks[5].passed
           /\ SaysIncomplete(result.checks[5].details)

\* the pass condition of check 6 on the latest-period values
DebtRule(s) ==
    /\ HasLatest(s, "Long Term Debt")
    /\ HasLatest(s, "Net Income")
    /\ LatestValue(s, "Net Income").v > 0
    /\ LatestValue(s, "Long Term Debt").v < 4 * LatestValue(s, "Net Income").v

\* C15: check 6 passes exactly when latest-period Long Term Debt is present,
\* latest-period Net Income is present and > 0, and debt < 4 * net income; a
\* ratio of exactly 4 fails and a net income <= 0 fails whatever the debt.
C15_DebtRule ==
    result.success => (result.checks[6].passed <=> DebtRule(stock))

\* the same on statements that come newest first
C15_NewestFirstOnly ==
    (result.success /\ ~empty(stock.balance_sheet) /\ ~empty(stock.financials)
                    /\ stock.balance_sheet.columns = NewestFirst
                    /\ stock.financials.columns = NewestFirst)
        => C15_DebtRule

\* a detail of check 6 that gives the insufficient-data reason
SaysInsufficient(details) ==
    details \in {"Insufficient data for calculation", "No data available"}

\* check 6 has an operand it cannot use
DebtOperandUnusable(s) ==
    \/ ~HasLatest(s, "Long Term Debt")
    \/ ~HasLatest(s, "Net Income")
    \/ LatestValue(s, "Net Income").v <= 0

\* C16: when Long Term Debt is missing, Net Income is missing or Net Income
\* is not positive, check 6 fails with the insufficient-data detail; a failed
\* check 6 gives the high-ratio detail only when both operands are present,
\* net income is positive and debt >= 4 * net income.
C16_InsufficientDebtData ==
    result.success =>
        /\ DebtOperandUnusable(stock) =>
              /\ ~result.checks[6].passed
              /\ SaysInsufficient(result.checks[6].details)
        /\ (~result.checks[6].passed /\ ~SaysInsufficient(result.checks[6].details)) =>
              /\ ~DebtOperandUnusable(stock)
              /\ LatestValue(stock, "Long Term Debt").v
                    >= 4 * LatestValue(stock, "Net Income").v

\* the same when every value check 6 reads is a number or its line item is
\* absent, on statements that come newest first
C16_NoMissingValueOnly ==
    (/\ result.success
     /\ \A item \in ItemsRead(6) :
           LET df == stock[TableOf(item)]
           IN  /\ ~empty(df) => df.columns = NewestFirst
               /\ HasItem(stock, TableOf(item), item) => HasLatest(stock, item))
        => C16_InsufficientDebtData

\* operating cash flow exceeds the size of another latest-period cash flow,
\* both present
Exceeds(s, item) ==
    /\ HasLatest(s, "Operating Cash Flow")
    /\ HasLatest(s, item)
    /\ LatestValue(s, "Operating Cash Flow").v
          > (IF LatestValue(s, item).v < 0 THEN -LatestValue(s, item).v
             ELSE LatestValue(s, item).v)

\* C17: check 9 passes exactly when latest-period operating, investing and
\* financing cash flow are all present, operating > |investing| and
\* operating > |financing|; a missing operand fails the comparison it is in.
C17_CashFlowStrength ==
    result.success =>
        (result.checks[9].passed <=>
            /\ Exceeds(stock, "Investing Cash Flow")
            /\ Exceeds(stock, "Financing Cash Flow"))

\* the same on cash-flow statements that come newest first
C17_NewestFirstOnly ==
    (result.success /\ ~empty(stock.cashflow) /\ stock.cashflow.columns = NewestFirst)
        => C17_CashFlowStrength

\* check 10 has to derive free cash flow: no direct line item, both inputs
Derives(s) ==
    /\ ~HasItem(s, "cashflow", "Free Cash Flow")
    /\ HasItem(s, "cashflow", "Operating Cash Flow")
    /\ HasItem(s, "cashflow", "Capital Expenditures")

\* operating cash flow + capital expenditures per period, from the oldest
\* period to the latest
DerivedAscending(s) ==
    LET op    == AscendingValues(s, "Operating Cash Flow")
        capex == AscendingValues(s, "Capital Expenditures")
    IN  [i \in 1..Len(op) |->
            IF op[i] = NaN \/ capex[i] = NaN THEN NaN ELSE Num(op[i].v + capex[i].v)]

\* C18: when Free Cash Flow is absent and Operating Cash Flow and Capital
\* Expenditures are present, check 10 passes exactly when the trend detector
\* finds an increasing trend on the per-period sums from the oldest period
\* to the latest, whatever the order of the columns of the cash-flow table.
C18_DerivedFreeCashFlow ==
    (result.success /\ Derives(stock)) =>
        result.checks[10].passed =
            check_trend_with_regression(DerivedAscending(stock), TRUE)

\* the same on cash-flow statements that come oldest first
C18_OldestFirstOnly ==
    (result.success /\ Derives(stock) /\ stock.cashflow.columns = Reverse(NewestFirst))
        => C18_DerivedFreeCashFlow

\* the cash-flow statements that differ from that of s in the derivation
\* inputs of check 10 only
OtherDerivationInputs(s) ==
    UNION {{WithoutItem(s, "cashflow", item)}
           \cup {WithRow(s, "cashflow", item, row) : row \in OtherRows(item)} :
             item \in {"Operating Cash Flow", "Capital Expenditures"} \cap s.cashflow.index}

\* C19: when the Free Cash Flow line item is present check 10 judges that
\* series, and its result is the same whatever Operating Cash Flow and
\* Capital Expenditures hold or whether they are there; the details of the
\* derivation appear only when the direct line item is absent.
C19_DirectFreeCashFlowFirst ==
    result.success =>
        /\ HasItem(stock, "cashflow", "Free Cash Flow") =>
              /\ result.checks[10].passed =
                    check_trend_with_regression(AscendingValues(stock, "Free Cash Flow"), TRUE)
              /\ result.checks[10].details
                    \in {"Consistent FCF improvement", "Declining free cash flow"}
              /\ \A s \in OtherDerivationInputs(stock) :
                    CheckOn(10, s) = result.checks[10]
        /\ result.checks[10].details \in {"Improving calculated FCF", "Declining calculated FCF"}
              => ~HasItem(stock, "cashflow", "Free Cash Flow")

\* the direct series passes although the derivation on the same statement
\* fails
C19_Witness ==
    /\ Returned
    /\ result.success
    /\ HasItem(stock, "cashflow", "Free Cash Flow")
    /\ Derives(WithoutItem(stock, "cashflow", "Free Cash Flow"))
    /\ result.checks[10].passed
    /\ ~CheckOn(10, WithoutItem(stock, "cashflow", "Free Cash Flow")).passed

\* neither the direct line item nor both inputs of the derivation
FreeCashFlowUnavailable(s) ==
    /\ ~HasItem(s, "cashflow", "Free Cash Flow")
    /\ \/ ~HasItem(s, "cashflow", "Operating Cash Flow")
       \/ ~HasItem(s, "cashflow", "Capital Expenditures")

HeaderText(k, s) ==
    CASE k = 1  -> "1. Latest PE Ratio: " \o info_text(s.info, "trailingPE")
      [] k = 2  -> "2. Revenue for the past 5 years:"
      [] k = 3  -> "3. Operating Income for the past 5 years:"
      [] k = 4  -> "4. Net Income for the past 5 years:"
      [] k = 5  -> "5. Latest Current Assets and Current Liabilities:"
      [] k = 6  -> "6. Latest Long Term Debt:"
      [] k = 7  -> "7. Stockholders' Equity for the past 5 years:"
      [] k = 8  -> "8. Shares Outstanding for the past 5 years:"
      [] k = 9  -> "9. Latest Cash Flow Data:"
      [] k = 10 -> "10. Free Cash Flow for the past 5 years:"

\* where the header of section k stands in a report
HeaderAt(k, report, s) == {i \in 1..Len(report) : report[i] = HeaderText(k, s)}
HeaderPos(k, report, s) == CHOOSE i \in HeaderAt(k, report, s) : TRUE

\* the lines of section k: from its header up to the next header
SectionLines(k, report, s) ==
    SubSeq(report, HeaderPos(k, report, s),
           IF k = 10 THEN Len(report) ELSE HeaderPos(k + 1, report, s) - 1)

\* the lines a listing is to have: one per period that holds a value, from
\* the oldest period on
RECURSIVE Listing(_, _, _, _)
Listing(row, p, indent, unit) ==
    IF p > Len(row) THEN <<>>
    ELSE (IF row[p] = NaN THEN <<>>
          ELSE <<indent \o ToString(p) \o ": " \o unit \o fmt_thousands(row[p])>>)
         \o Listing(row, p + 1, indent, unit)

\* a line item has no value at all: absent, in an empty statement, or with
\* every value missing
NoValueOf(s, item) ==
    \/ ~HasItem(s, TableOf(item), item)
    \/ \A p \in PeriodsOf(s[TableOf(item)]) : s[TableOf(item)].cell[item][p] = NaN

\* the report has no value to show in section k
NoValue(k, s) ==
    CASE k = 1  -> s.info.trailingPE = Absent /\ s.info.trailingPegRatio = Absent
      [] k \in {2, 3, 4, 7} -> NoValueOf(s, GrowthItem(k))
      [] k = 5  -> NoValueOf(s, "Current Assets") /\ NoValueOf(s, "Current Liabilities")
      [] k = 6  -> NoValueOf(s, "Long Term Debt")
      [] k = 8  -> s.info.sharesOutstanding = Absent
                   /\ NoValueOf(s, "Ordinary Shares Number")
      [] k = 9  -> \A item \in ItemsRead(9) : NoValueOf(s, item)
      [] k = 10 -> IF HasItem(s, "cashflow", "Free Cash Flow")
                   THEN NoValueOf(s, "Free Cash Flow")
                   ELSE \/ ~Derives(s)
                        \/ \A i \in 1..Len(DerivedAscending(s)) : DerivedAscending(s)[i] = NaN

\* the lines that say a value is not available
NotAvailableLines ==
    {"1. Latest PE Ratio: N/A", "   PEG Ratio: N/A",
     "   Revenue data not available", "   Operating Income data not available",
     "   Net Income data not available", "   Balance sheet data not available",
     "   Current Assets: N/A", "   Current Liabilities: N/A", "   N/A",
     "   Stockholders' Equity data not available",
     "   Current shares outstanding not available",
     "   Cash flow data not available", "   Operating Cash Flow: N/A",
     "   Investing Cash Flow: N/A", "   Financing Cash Flow: N/A",
     "    Free Cash Flow data not available", "    Cash flow data not available"}

\* the ten headers, each once and in the order 1 to 10
HeadersInOrder(report, s) ==
    /\ \A k \in 1..10 : Cardinality(HeaderAt(k, report, s)) = 1
    /\ \A k \in 1..9 : HeaderPos(k, report, s) < HeaderPos(k + 1, report, s)

\* the listings skip missing values and run from the oldest period on
ListingsAscending(report, s) ==
    /\ \A k \in {2, 3, 4, 7} :
          HasItem(s, TableOf(GrowthItem(k)), GrowthItem(k)) =>
              SectionLines(k, report, s) =
                  <<HeaderText(k, s)>>
                  \o Listing(AscendingValues(s, GrowthItem(k)), 1, "   ", "$") \o <<"">>
    /\ HasItem(s, "cashflow", "Free Cash Flow") =>
          SectionLines(10, report, s) =
              <<HeaderText(10, s)>>
              \o Listing(AscendingValues(s, "Free Cash Flow"), 1, "    ", "$") \o <<"">>
    /\ Derives(s) =>
          SectionLines(10, report, s) =
              <<HeaderText(10, s),
                "    (Calculated as Operating Cash Flow - Capital Expenditures)">>
              \o Listing(DerivedAscending(s), 1, "    ", "$") \o <<"">>

\* a section with no value to show has a not-available line
NotAvailableSaid(report, s) ==
    \A k \in 1..10 : NoValue(k, s) =>
        \E i \in 1..Len(SectionLines(k, report, s)) :
            SectionLines(k, report, s)[i] \in NotAvailableLines

\* C21: every report has the ten numbered headers in the order 1 to 10;
\* its listings skip missing values and run in ascending period order; and
\* every section with no value to show (line item absent, statement empty,
\* or every value of the line item missing) has a not-available line.
C21_ReportSections ==
    result.success =>
        /\ HeadersInOrder(result.detailedAnalysis, stock)
        /\ ListingsAscending(result.detailedAnalysis, stock)
        /\ NotAvailableSaid(result.detailedAnalysis, stock)

\* the same without the not-available line of a line item that is present
\* with every value missing
C21_HeadersAndListings ==
    result.success =>
        /\ HeadersInOrder(result.detailedAnalysis, stock)
        /\ ListingsAscending(result.detailedAnalysis, stock)
        /\ (\A item \in FinItems \cup BsItems \cup CfItems :
               HasItem(stock, TableOf(item), item) => ~NoValueOf(stock, item))
              => NotAvailableSaid(result.detailedAnalysis, stock)

\* ------------------------------------------------------------------------
\* Properties of a sequence of calls (SpecSession)
\* ------------------------------------------------------------------------
\* two calls were given the same: the ticker, and the provider answering
\* (or not) with equal metrics and statement tables
SameInput(c1, c2) ==
    /\ c1.ticker = c2.ticker
    /\ c1.provider_raises = c2.provider_raises
    /\ c1.stock = c2.stock

WebVerdicts == IF result.success THEN [k \in 1..10 |-> result.checks[k].passed] ELSE <<>>
ListVerdicts(results) == [k \in 1..Len(results) |-> results[k].passed]
ConsoleVerdicts ==
    ListVerdicts(console_analyze_stock(raised = "provider", stock.info, stock.financials,
                                       stock.balance_sheet, stock.cashflow))
DesktopVerdicts ==
    ListVerdicts(desktop_analyze_stock(raised = "provider", stock.info, stock.financials,
                                       stock.balance_sheet, stock.cashflow))

\* C23: on every snapshot the web, the console and the desktop engine have
\* the same outcome: the same ten verdicts in the same order, or no verdicts
\* from any of them.
C23_EnginesAgree ==
    Returned => (WebVerdicts = ConsoleVerdicts /\ ConsoleVerdicts = DesktopVerdicts)

\* the same where the web engine returned a success or the provider raised
C23_AgreeOnSuccess ==
    (Returned /\ (result.success \/ raised = "provider")) => C23_EnginesAgree

\* ------------------------------------------------------------------------
\* Properties of the console (SpecConsole)
\* ------------------------------------------------------------------------
\* the results of a list with passed = true
RECURSIVE PassedIn(_)
PassedIn(results) ==
    IF results = <<>> THEN 0
    ELSE (IF Head(results).passed THEN 1 ELSE 0) + PassedIn(Tail(results))

\* p out of t in percent, to one decimal place, in tenths (0 for t = 0)
PercentTenths(p, t) == IF t = 0 THEN 0 ELSE (2000 * p + t) \div (2 * t)

\* the score line for p results passed out of t
ScoreLine(p, t) ==
    "FINANCIAL HEALTH SCORE: " \o ToString(p) \o "/" \o ToString(t) \o " ("
    \o ToString(PercentTenths(p, t) \div 10) \o "." \o ToString(PercentTenths(p, t) % 10)
    \o "%)"

\* the assessment for p results passed out of t: the bands of p / t in
\* fifths, and the lowest band where there is no result
Assessment(p, t) ==
    IF t > 0 /\ 5 * p >= 4 * t THEN "EXCELLENT - Strong financial health"
    ELSE IF t > 0 /\ 5 * p >= 3 * t THEN "GOOD - Solid financial position"
    ELSE IF t > 0 /\ 5 * p >= 2 * t THEN "FAIR - Some concerns present"
    ELSE "POOR - Significant financial risks"

\* the assessment of ten checks by the number passed
AssessmentOfTen(p) ==
    CASE p \in 8..10 -> "EXCELLENT - Strong financial health"
      [] p \in 6..7  -> "GOOD - Solid financial position"
      [] p \in 4..5  -> "FAIR - Some concerns present"
      [] p \in 0..3  -> "POOR - Significant financial risks"

\* a score block is the one of a list of results
ScoreOf(block, results) ==
    /\ block.score = ScoreLine(PassedIn(results), Len(results))
    /\ block.assessment = Assessment(PassedIn(results), Len(results))

\* C25: the console health score is the number of results passed over the
\* number of results, and the assessment follows from that percentage alone:
\* EXCELLENT from 80, GOOD from 60, FAIR from 40, POOR below (with ten
\* checks 8-10, 6-7, 4-5, 0-3 passed); a failed analysis returns an empty
\* list and prints no score; display_results on an empty list reports
\* 0 percent.
C25_HealthScore ==
    /\ shown # NoScore =>
          /\ ScoreOf(shown, shown_results)
          /\ shown_results = <<>> =>
                shown = [score |-> "FINANCIAL HEALTH SCORE: 0/0 (0.0%)",
                         assessment |-> "POOR - Significant financial risks"]
    /\ (analyses > 0 /\ console_raised) =>
          console_returned = <<>> /\ printed = NoScore
    /\ (analyses > 0 /\ ~console_raised) =>
          /\ Len(console_returned) = 10
          /\ ScoreOf(printed, console_returned)
          /\ printed.assessment = AssessmentOfTen(PassedIn(console_returned))

\* an analysis of ten checks has printed its score and display_results has
\* been given an empty list
C25_Witness ==
    /\ analyses > 0 /\ ~console_raised
    /\ PassedIn(console_returned) = 6
    /\ printed.score = "FINANCIAL HEALTH SCORE: 6/10 (60.0%)"
    /\ shown # NoScore /\ shown_results = <<>>

\* an analysis has failed and display_results has been given a list on the
\* edge of a band
C25_WitnessFailed ==
    /\ analyses > 0 /\ console_raised /\ console_returned = <<>>
    /\ PassedIn(shown_results) = 4 /\ Len(shown_results) = 5
    /\ shown.assessment = "EXCELLENT - Strong financial health"

\* the lines that are empty once trimmed
BlankLines == {<<>>, <<" ", " ">>}

\* the lines that are 'quit' once trimmed, in any letter case
QuitLines == {<<"q", "u", "i", "t">>, <<" ", "Q", "u", "i", "T", " ">>}

\* the lines that are 'y' or 'yes' once trimmed and lowered
YesLines == {<<"y">>, <<" ", "Y", "E", "S", " ">>, <<"y", "e", "s">>}

\* a step of the loop reads a line at the ticker prompt, at the continue
\* question
ReadsTicker == prompt = "ticker" /\ reads' = reads + 1
ReadsAnswer == prompt = "continue" /\ reads' = reads + 1

\* an analysis is started only for a ticker input that is neither empty
\* nor 'quit'
AnalysisOnlyForTicker ==
    analyses' # analyses =>
        /\ analyses' = analyses + 1
        /\ ReadsTicker
        /\ typed' \notin BlankLines \cup QuitLines

\* every other ticker input is analysed, whether or not the analysis fails,
\* and the continue question comes next
TickerIsAnalysed ==
    (ReadsTicker /\ typed' \notin BlankLines \cup QuitLines) =>
        analyses' = analyses + 1 /\ prompt' = "continue"

\* an empty input leads back to the ticker prompt with no analysis
EmptyInputReprompts ==
    (ReadsTicker /\ typed' \in BlankLines) =>
        prompt' = "ticker" /\ analyses' = analyses

\* the loop ends exactly on 'quit' at the ticker prompt or on an answer
\* other than 'y' or 'yes'
EndsExactlyOnQuitOrNo ==
    (prompt # "exited" /\ prompt' = "exited") <=>
        \/ ReadsTicker /\ typed' \in QuitLines
        \/ ReadsAnswer /\ typed' \notin YesLines

\* the ticker prompt comes back only after an answer of 'y' or 'yes'
TickerAfterYesOnly ==
    /\ analyses' # analyses => prompt' = "continue"
    /\ (prompt = "continue" /\ prompt' # "continue") => ReadsAnswer
    /\ (prompt = "continue" /\ prompt' = "ticker") => typed' \in YesLines
    /\ prompt = "continue" => analyses' = analyses
    /\ prompt = "exited" => prompt' = "exited" /\ reads' = reads

\* C26: in the console prompt loop an analysis is started only for a ticker
\* input that after trimming is non-empty and is not 'quit' in any letter
\* case; an empty input re-prompts for a ticker with no analysis and no
\* continue question; the loop ends exactly when the ticker input is 'quit'
\* or the answer to the continue question is other than 'y' or 'yes'; and
\* after every analysis, failed or not, the continue question is asked
\* before any further ticker prompt.
C26_PromptLoop ==
    [][/\ AnalysisOnlyForTicker
       /\ TickerIsAnalysed
       /\ EmptyInputReprompts
       /\ EndsExactlyOnQuitOrNo
       /\ TickerAfterYesOnly]_vars

\* the loop has run a failed analysis, taken 'yes' for an answer, and has
\* ended on 'quit' in mixed case
C26_Witness ==
    /\ prompt = "exited"
    /\ analyses = 1
    /\ console_raised
    /\ reads = 3
    /\ typed = <<" ", "Q", "u", "i", "T", " ">>

\* the loop has read an empty line and then a ticker, and waits at the
\* continue question
C26_WitnessReprompt ==
    /\ prompt = "continue"
    /\ analyses = 1
    /\ reads = 2

====
